---- MODULE Spec2Model ----
(***************************************************************************)
(* elf-owl: pick one file of a search tree with fzf, copy it into a target *)
(* checkout and drive git/gh through branch, add, commit, push, pr create  *)
(* and browse.  The repository holds two builds of the entry point,        *)
(* src/main.go and src/unnamed/part_000; they differ in the destination    *)
(* path of the copy and in the body of the pull request.                   *)
(*                                                                         *)
(* Strings are sequences of one-character strings, so that trimming,       *)
(* path arithmetic and sanitising are computed, not assumed.               *)
(***************************************************************************)
EXTENDS Integers, Sequences, FiniteSets, TLC

(***************************************************************************)
(* Characters                                                              *)
(***************************************************************************)
Lower == {"a","b","c","d","e","f","g","h","i","j","k","l","m",
          "n","o","p","q","r","s","t","u","v","w","x","y","z"}

Upper == {"A","B","C","D","E","F","G","H","I","J","K","L","M",
          "N","O","P","Q","R","S","T","U","V","W","X","Y","Z"}

Digits == <<"0","1","2","3","4","5","6","7","8","9">>

DigitSet == {Digits[i] : i \in 1..Len(Digits)}

IsAlnumMutant(r) == r \in Lower \cup DigitSet

\* the test of the strings.Map callback of generateBranchName
IsAlnum(r) == r \in Lower \cup Upper \cup DigitSet

\* unicode.IsSpace restricted to the characters of the model's alphabet
IsSpace(r) == r \in {" ", "\t"}

IsPathSeparator(r) == r = "/"

(***************************************************************************)
(* strings and path/filepath, as the Go library computes them              *)
(***************************************************************************)
RECURSIVE TrimLeft(_)
TrimLeft(s) ==
    IF s # <<>> /\ IsSpace(Head(s)) THEN TrimLeft(Tail(s)) ELSE s

RECURSIVE TrimRight(_)
TrimRight(s) ==
    IF s # <<>> /\ IsSpace(s[Len(s)]) THEN TrimRight(SubSeq(s, 1, Len(s) - 1)) ELSE s

TrimSpace(s) == TrimRight(TrimLeft(s))

HasSuffix(s, suffix) ==
    /\ Len(s) >= Len(suffix)
    /\ SubSeq(s, Len(s) - Len(suffix) + 1, Len(s)) = suffix

TrimSuffix(s, suffix) ==
    IF HasSuffix(s, suffix) THEN SubSeq(s, 1, Len(s) - Len(suffix)) ELSE s

\* index of the last path separator of s, 0 when there is none
RECURSIVE LastSep(_)
LastSep(s) ==
    IF s = <<>> THEN 0
    ELSE IF IsPathSeparator(s[Len(s)]) THEN Len(s)
    ELSE LastSep(SubSeq(s, 1, Len(s) - 1))

RECURSIVE StripTrailingSeps(_)
StripTrailingSeps(s) ==
    IF s # <<>> /\ IsPathSeparator(s[Len(s)])
    THEN StripTrailingSeps(SubSeq(s, 1, Len(s) - 1))
    ELSE s

Base(path) ==
    IF path = <<>> THEN <<".">>
    ELSE LET p == StripTrailingSeps(path)
             e == SubSeq(p, LastSep(p) + 1, Len(p))
         IN  IF e = <<>> THEN <<"/">> ELSE e

\* scans from the end of the whole argument, stopping at a separator
RECURSIVE ExtFrom(_, _)
ExtFrom(path, i) ==
    IF i < 1 \/ IsPathSeparator(path[i]) THEN <<>>
    ELSE IF path[i] = "." THEN SubSeq(path, i, Len(path))
    ELSE ExtFrom(path, i - 1)

Ext(path) == ExtFrom(path, Len(path))

\* the elements of a path between separators, empty ones included
RECURSIVE Split(_)
Split(s) ==
    LET i == LastSep(s)
    IN  IF i = 0 THEN <<s>>
        ELSE Append(Split(SubSeq(s, 1, i - 1)), SubSeq(s, i + 1, Len(s)))

RECURSIVE JoinSep(_)
JoinSep(elems) ==
    IF elems = <<>> THEN <<>>
    ELSE IF Len(elems) = 1 THEN elems[1]
    ELSE elems[1] \o <<"/">> \o JoinSep(Tail(elems))

\* Clean's element stack: "." and empty elements dropped, ".." pops
RECURSIVE CleanElems(_, _, _)
CleanElems(elems, out, rooted) ==
    IF elems = <<>> THEN out
    ELSE LET e == Head(elems)
             rest == Tail(elems)
         IN  IF e = <<>> \/ e = <<".">> THEN CleanElems(rest, out, rooted)
             ELSE IF e = <<".", ".">>
                  THEN IF out # <<>> /\ out[Len(out)] # <<".", ".">>
                       THEN CleanElems(rest, SubSeq(out, 1, Len(out) - 1), rooted)
                       ELSE IF rooted THEN CleanElems(rest, out, rooted)
                       ELSE CleanElems(rest, Append(out, e), rooted)
             ELSE CleanElems(rest, Append(out, e), rooted)

Clean(path) ==
    IF path = <<>> THEN <<".">>
    ELSE LET rooted == IsPathSeparator(path[1])
             body == JoinSep(CleanElems(Split(path), <<>>, rooted))
         IN  IF rooted THEN <<"/">> \o body
             ELSE IF body = <<>> THEN <<".">> ELSE body

\* filepath.Join of two elements
Join(a, b) ==
    IF a = <<>> /\ b = <<>> THEN <<>>
    ELSE IF a = <<>> THEN Clean(b)
    ELSE Clean(a \o <<"/">> \o b)

Dir(path) == Clean(SubSeq(path, 1, LastSep(path)))

IsAbsPath(path) == path # <<>> /\ IsPathSeparator(path[1])

Abs(wd, path) == IF IsAbsPath(path) THEN Clean(path) ELSE Join(wd, path)

(***************************************************************************)
(* generateBranchName                                                      *)
(***************************************************************************)
TwoDigits(n) == <<Digits[(n \div 10) + 1], Digits[(n % 10) + 1]>>

\* time.Format("06-01-02"): two-digit year, month, day
FormatDate(t) ==
    TwoDigits(t.year % 100) \o <<"-">> \o TwoDigits(t.month) \o <<"-">> \o TwoDigits(t.day)

\* strings.Map with the callback of generateBranchName: one rune in, one rune out
SanitizeMutant(s) == [i \in 1..Len(s) |-> IF IsAlnum(s[i]) \/ s[i] = "." THEN s[i] ELSE "-"]

Sanitize(s) == [i \in 1..Len(s) |-> IF IsAlnum(s[i]) THEN s[i] ELSE "-"]

generateBranchName(filename, t) ==
    LET date == FormatDate(t)
        base == Sanitize(TrimSuffix(Base(filename), Ext(filename)))
    IN  base \o <<"-">> \o date

(***************************************************************************)
(* The environment the entry point runs in                                 *)
(***************************************************************************)
\* the working directory the process is started in
StartDir == <<"/", "w">>

\* values of --search, --target and --branch on the command line; the first
\* of each is the flag's default (flag absent)
SearchArgs == {<<>>, <<"s">>, <<"/", "s">>}

TargetArgs == {<<".">>, <<"t">>, <<"s">>}

BranchArgs == {<<>>, <<"b", "-", "1">>, <<"f", "/", "x">>}

NoDate == [year |-> 0, month |-> 0, day |-> 0]

Dates == {[year |-> 2024, month |-> 3, day |-> 5],
          [year |-> 1999, month |-> 12, day |-> 31]}

File(p) == [path |-> p, kind |-> "file"]

Folder(p) == [path |-> p, kind |-> "dir"]

Symlink(p) == [path |-> p, kind |-> "symlink"]

MyFileV2 == <<"M","y"," ","F","i","l","e"," ","v","2",".","t","x","t">>

NotesIdea == <<"n","o","t","e","s","/","i","d","e","a",".","m","d">>

\* search trees below the search root, entries in the order filepath.Walk
\* visits them (lexical within each directory), paths relative to the root
ListedTrees ==
    { <<>>,
      << Folder(<<"n","o","t","e","s">>), File(NotesIdea) >>,
      << File(MyFileV2) >>,
      << File(<<" ","a">>), File(<<"a"," ">>) >>,
      << File(<<" ">>), File(<<".","a">>) >>,
      << Folder(<<"a",".","b">>), File(<<"a",".","b","/"," ">>) >>,
      << Symlink(<<"l">>), File(<<"x",".","y",".","z">>) >>,
      << Folder(<<"d">>) >> }

\* longest generated file path, and the characters it is made of
MaxName == 2

NameAlphabet == {"a", " ", ".", "/"}

StringsUpTo(alphabet, n) == UNION {[1..k -> alphabet] : k \in 0..n}

\* a path filepath.Rel can return for an entry below the root
IsRelativeEntry(p) ==
    /\ p # <<>>
    /\ ~IsAbsPath(p)
    /\ Clean(p) = p
    /\ p # <<".">>
    /\ Split(p)[1] # <<".", ".">>

\* every tree that holds one regular file with a path of at most MaxName
\* characters (directories above it are not candidates and are left out)
GeneratedTrees ==
    {<<File(p)>> : p \in {q \in StringsUpTo(NameAlphabet, MaxName) : IsRelativeEntry(q)}}

Trees == ListedTrees \cup GeneratedTrees

Tools == {"fzf", "git", "gh"}

\* exit statuses of the finder: 0, no match, error, interrupted, killed by a
\* signal (ExitCode() reports -1)
ExitCodes == {0, 1, 2, 130, -1}

(***************************************************************************)
(* State of one run of the entry point                                     *)
(***************************************************************************)
VARIABLES
    build,            \* which entry point runs: "main.go" or "part_000"
    pc,               \* position of main
    parsed,           \* flag.Parse returned
    searchDir,        \* *searchDir
    targetDir,        \* *targetDir
    branchName,       \* *branchName
    statRes,          \* what os.Stat(*searchDir) reported
    absSearchDir,
    absTargetDir,
    onPath,           \* [seen, found]: the tools exec.LookPath resolves
    files,            \* result of findFiles
    tree,             \* [walked, entries]: the tree findFiles walked
    walkErr,          \* findFiles returned an error
    fzf,              \* the finder process: [spawned, state, printed, line, exit]
    selRet,           \* [returned, selected, err]: what selectFileWithFzf returned
    now,              \* the date time.Now() reported to generateBranchName
    finalBranchName,
    sourcePath,
    destPath,
    fsLog,            \* phases of copyFile that ran: [op, path, ok]
    cwd,              \* working directory of the process
    chdirs,           \* number of successful os.Chdir calls
    cmdLog,           \* external commands of gitOperations, in start order
    gitErr,           \* error returned by gitOperations
    exitCode,         \* -1 while the process runs
    out               \* messages printed, in order

\* copyFile on a file system, phase by phase
VARIABLES
    cpPc,             \* position of copyFile: "idle", a phase, or "returned"
    cpSrc,            \* src
    cpDst,            \* dst
    cpOff,            \* bytes io.Copy has read from the source
    cpErr,            \* the error copyFile returned, "" for nil
    cpLog,            \* phases that ran: [op, ok]
    fsFiles,          \* regular files: path -> content
    fsDirs,           \* directories
    fs0               \* [files, dirs, content]: the file system and the source's
                      \* content when copyFile was called

copierVars == <<cpPc, cpSrc, cpDst, cpOff, cpErr, cpLog, fsFiles, fsDirs, fs0>>

\* selectFileWithFzf with its writer goroutine, the two pipes and the finder
VARIABLES
    wr,               \* the writer goroutine: [state, next, log], log of [line, res]
    inPipe,           \* the finder's stdin: [buf, cap, wopen], lines not yet read,
                      \* capacity in lines, parent's write end open
    outPipe,          \* the finder's stdout: lines printed and not yet scanned
    fin,              \* the finder's input so far: [read, eof]
    scan              \* [done, ok, text]: scanner.Scan() and scanner.Text()

bridgeVars == <<wr, inPipe, outPipe, fin, scan>>

aux == <<copierVars, bridgeVars>>

mainVars == <<tree, build, pc, parsed, searchDir, targetDir, branchName, statRes, absSearchDir,
          absTargetDir, onPath, files, walkErr, fzf, selRet, now,
          finalBranchName, sourcePath, destPath, fsLog, cwd, chdirs, cmdLog,
          gitErr, exitCode, out>>

vars == <<mainVars, aux>>

Builds == {"main.go", "part_000"}

NoFinder == [spawned |-> 0, state |-> "none", printed |-> FALSE, line |-> <<>>, exit |-> 0]

NoReturn == [returned |-> FALSE, selected |-> <<>>, err |-> ""]

NotWalked == [walked |-> FALSE, entries |-> <<>>]

EmptyMap == [x \in {} |-> <<>>]

\* copyFile has not been called on the modelled file system
CopierIdle ==
    /\ cpPc = "idle"
    /\ cpSrc = <<>>
    /\ cpDst = <<>>
    /\ cpOff = 0
    /\ cpErr = ""
    /\ cpLog = <<>>
    /\ fsFiles = EmptyMap
    /\ fsDirs = {}
    /\ fs0 = [files |-> EmptyMap, dirs |-> {}, content |-> <<>>]

NoScan == [done |-> FALSE, ok |-> FALSE, text |-> <<>>]

\* selectFileWithFzf is not modelled with its goroutine and pipes
BridgeIdle ==
    /\ wr = [state |-> "none", next |-> 1, log |-> <<>>]
    /\ inPipe = [buf |-> <<>>, cap |-> 0, wopen |-> FALSE]
    /\ outPipe = <<>>
    /\ fin = [read |-> <<>>, eof |-> FALSE]
    /\ scan = NoScan

\* what main holds besides its position, the candidates, the finder and the
\* selection, before it runs
OutsideIdle ==
    /\ parsed = FALSE
    /\ searchDir = <<>>
    /\ targetDir = <<".">>
    /\ branchName = <<>>
    /\ statRes = "unseen"
    /\ absSearchDir = <<>>
    /\ absTargetDir = <<>>
    /\ onPath = [seen |-> FALSE, found |-> {}]
    /\ tree = NotWalked
    /\ walkErr = FALSE
    /\ now = NoDate
    /\ finalBranchName = <<>>
    /\ sourcePath = <<>>
    /\ destPath = <<>>
    /\ fsLog = <<>>
    /\ cwd = StartDir
    /\ chdirs = 0
    /\ cmdLog = <<>>
    /\ gitErr = ""
    /\ exitCode = -1
    /\ out = <<>>

outsideVars == <<build, parsed, searchDir, targetDir, branchName, statRes,
                 absSearchDir, absTargetDir, onPath, tree, walkErr, now,
                 finalBranchName, sourcePath, destPath, fsLog, cwd, chdirs,
                 cmdLog, gitErr, exitCode, out>>

\* the entry point before it runs
MainIdle ==
    /\ pc = "idle"
    /\ files = <<>>
    /\ fzf = NoFinder
    /\ selRet = NoReturn
    /\ OutsideIdle

Init ==
    /\ CopierIdle
    /\ BridgeIdle
    /\ build \in Builds
    /\ pc = "flags"
    /\ parsed = FALSE
    /\ searchDir = <<>>
    /\ targetDir = <<".">>
    /\ branchName = <<>>
    /\ statRes = "unseen"
    /\ absSearchDir = <<>>
    /\ absTargetDir = <<>>
    /\ onPath = [seen |-> FALSE, found |-> {}]
    /\ files = <<>>
    /\ tree = NotWalked
    /\ walkErr = FALSE
    /\ fzf = NoFinder
    /\ selRet = NoReturn
    /\ now = NoDate
    /\ finalBranchName = <<>>
    /\ sourcePath = <<>>
    /\ destPath = <<>>
    /\ fsLog = <<>>
    /\ cwd = StartDir
    /\ chdirs = 0
    /\ cmdLog = <<>>
    /\ gitErr = ""
    /\ exitCode = -1
    /\ out = <<>>

\* fmt.Print* of msg (with the error it wraps, if any) followed by os.Exit(code);
\* the texts are spelled as in main.go, part_000 prints them capitalised
Exit(code, msg, cause) ==
    /\ pc' = "exited"
    /\ exitCode' = code
    /\ out' = Append(out, [text |-> msg, cause |-> cause])

Goto(next) ==
    /\ pc' = next
    /\ UNCHANGED <<exitCode, out>>

(***************************************************************************)
(* main: flags and preconditions                                           *)
(***************************************************************************)
\* flag.Parse on flag.CommandLine (ExitOnError): -h/-help prints the usage and
\* exits 0, a command line it cannot parse prints the error and exits 2
FlagParse ==
    /\ pc = "flags"
    /\ \/ /\ \E s \in SearchArgs, t \in TargetArgs, b \in BranchArgs :
                /\ searchDir' = s
                /\ targetDir' = t
                /\ branchName' = b
          /\ parsed' = TRUE
          /\ Goto("required")
       \/ /\ Exit(0, "usage", "")
          /\ UNCHANGED <<parsed, searchDir, targetDir, branchName>>
       \/ /\ Exit(2, "flag provided but not defined", "")
          /\ UNCHANGED <<parsed, searchDir, targetDir, branchName>>
    /\ UNCHANGED <<aux, tree, build, statRes, absSearchDir, absTargetDir, onPath, files,
                   walkErr, fzf, selRet, now, finalBranchName, sourcePath,
                   destPath, fsLog, cwd, chdirs, cmdLog, gitErr>>

SearchMissing(s) == s = <<>>

ValidateSearch ==
    /\ pc = "required"
    /\ IF SearchMissing(searchDir)
       THEN Exit(1, "error: search directory is required", "")
       ELSE Goto("stat")
    /\ UNCHANGED <<aux, tree, build, parsed, searchDir, targetDir, branchName, statRes,
                   absSearchDir, absTargetDir, onPath, files, walkErr, fzf,
                   selRet, now, finalBranchName, sourcePath, destPath, fsLog,
                   cwd, chdirs, cmdLog, gitErr>>

\* what os.Stat can report for the search root: a directory, some other
\* file, ENOENT, or another error (EACCES or ENOTDIR on a parent, ...)
StatResults == {"dir", "file", "notexist", "denied"}

\* os.IsNotExist(err)
IsNotExist(r) == r = "notexist"

StatSearch ==
    /\ pc = "stat"
    /\ \E r \in StatResults :
          /\ statRes' = r
          /\ IF IsNotExist(r)
             THEN Exit(1, "error: search directory does not exist", "")
             ELSE Goto("abs")
    /\ UNCHANGED <<aux, tree, build, parsed, searchDir, targetDir, branchName, absSearchDir,
                   absTargetDir, onPath, files, walkErr, fzf, selRet, now,
                   finalBranchName, sourcePath, destPath, fsLog, cwd, chdirs,
                   cmdLog, gitErr>>

\* filepath.Abs fails only when it needs os.Getwd and that fails
AbsPaths ==
    /\ pc = "abs"
    /\ \/ /\ absSearchDir' = Abs(cwd, searchDir)
          /\ absTargetDir' = Abs(cwd, targetDir)
          /\ Goto("lookpath")
       \/ /\ ~IsAbsPath(searchDir)
          /\ Exit(1, "error getting absolute path", "")
          /\ UNCHANGED <<absSearchDir, absTargetDir>>
       \/ /\ ~IsAbsPath(targetDir)
          /\ absSearchDir' = Abs(cwd, searchDir)
          /\ Exit(1, "error getting absolute path", "")
          /\ UNCHANGED absTargetDir
    /\ UNCHANGED <<aux, tree, build, parsed, searchDir, targetDir, branchName, statRes, onPath,
                   files, walkErr, fzf, selRet, now, finalBranchName,
                   sourcePath, destPath, fsLog, cwd, chdirs, cmdLog, gitErr>>

requiredCommandsMutant == <<"fzf", "git">>

requiredCommands == <<"fzf", "git", "gh">>

\* the first required command exec.LookPath does not resolve, "" when all do
RECURSIVE FirstMissing(_, _)
FirstMissing(cmds, found) ==
    IF cmds = <<>> THEN ""
    ELSE IF Head(cmds) \notin found THEN Head(cmds)
    ELSE FirstMissing(Tail(cmds), found)

LookPath ==
    /\ pc = "lookpath"
    /\ \E found \in SUBSET Tools :
          /\ onPath' = [seen |-> TRUE, found |-> found]
          /\ IF FirstMissing(requiredCommands, found) # ""
             THEN Exit(1, "error: required command not found in path", "")
             ELSE Goto("find")
    /\ UNCHANGED <<aux, tree, build, parsed, searchDir, targetDir, branchName, statRes,
                   absSearchDir, absTargetDir, files, walkErr, fzf, selRet,
                   now, finalBranchName, sourcePath, destPath, fsLog, cwd,
                   chdirs, cmdLog, gitErr>>

(***************************************************************************)
(* findFiles                                                               *)
(***************************************************************************)
IsCandidateMutant(e) == TRUE

\* the entries the walk callback appends: every entry that is not a directory
IsCandidate(e) == e.kind # "dir"

RECURSIVE WalkFiles(_, _)
WalkFiles(entries, n) ==
    IF n = 0 THEN <<>>
    ELSE LET e == entries[n]
             before == WalkFiles(entries, n - 1)
         IN  IF IsCandidate(e) THEN Append(before, e.path) ELSE before

NoCandidatesMutant(fs) == FALSE

NoCandidates(fs) == Len(fs) = 0

Walked(t) == [walked |-> TRUE, entries |-> t]

\* main's call of findFiles and its two checks.  A root that is not a
\* directory is walked as the single entry "." (filepath.Rel(dir, dir)); a
\* root or an entry that cannot be read ends the walk with an error after the
\* n entries before it.
Enumerate ==
    /\ pc = "find"
    /\ \/ /\ statRes = "denied"
          /\ tree' = Walked(<<>>)
          /\ files' = <<>>
          /\ walkErr' = TRUE
       \/ /\ statRes = "file"
          /\ tree' = Walked(<<File(<<".">>)>>)
          /\ files' = WalkFiles(tree'.entries, 1)
          /\ walkErr' = FALSE
       \/ /\ statRes = "dir"
          /\ \E t \in Trees : \E n \in 0..Len(t) :
                /\ tree' = Walked(t)
                /\ files' = WalkFiles(t, n)
                /\ walkErr' = (n < Len(t))
    /\ IF walkErr' THEN Exit(1, "error finding files", "walk")
       ELSE IF NoCandidates(files') THEN Exit(1, "no files found in search directory", "")
       ELSE Goto("fzf")
    /\ UNCHANGED <<aux, build, parsed, searchDir, targetDir, branchName, statRes,
                   absSearchDir, absTargetDir, onPath, fzf, selRet, now,
                   finalBranchName, sourcePath, destPath, fsLog, cwd, chdirs,
                   cmdLog, gitErr>>

(***************************************************************************)
(* selectFileWithFzf                                                       *)
(***************************************************************************)
StartResults == {"", "failed to create stdin pipe", "failed to create stdout pipe",
                 "failed to start fzf"}

\* StdinPipe, StdoutPipe and cmd.Start
FzfStart ==
    /\ pc = "fzf"
    /\ \E r \in StartResults :
          IF r = ""
          THEN /\ fzf' = [fzf EXCEPT !.spawned = @ + 1, !.state = "running"]
               /\ pc' = "finder"
               /\ UNCHANGED selRet
          ELSE /\ selRet' = [returned |-> TRUE, selected |-> <<>>, err |-> r]
               /\ pc' = "selected"
               /\ UNCHANGED fzf
    /\ UNCHANGED <<aux, tree, build, parsed, searchDir, targetDir, branchName, statRes,
                   absSearchDir, absTargetDir, onPath, files, walkErr, now,
                   finalBranchName, sourcePath, destPath, fsLog, cwd, chdirs,
                   cmdLog, gitErr, exitCode, out>>

\* the finder: prints one of the lines the writer goroutine (lines 82-87)
\* offers it, or nothing, and ends with any exit status
FinderExit ==
    /\ pc = "finder"
    /\ \E code \in ExitCodes :
          \/ fzf' = [fzf EXCEPT !.state = "exited", !.exit = code]
          \/ \E i \in 1..Len(files) :
                fzf' = [fzf EXCEPT !.state = "exited", !.exit = code,
                                   !.printed = TRUE, !.line = files[i]]
    /\ pc' = "scan"
    /\ UNCHANGED <<aux, tree, build, parsed, searchDir, targetDir, branchName, statRes,
                   absSearchDir, absTargetDir, onPath, files, walkErr, selRet,
                   now, finalBranchName, sourcePath, destPath, fsLog, cwd,
                   chdirs, cmdLog, gitErr, exitCode, out>>

CancelCode == 130

\* the error selectFileWithFzf makes of cmd.Wait's result, "" for none
WaitErrorMutant(code) ==
    IF code = 0 \/ code = CancelCode THEN "" ELSE "fzf failed"

WaitError(code) ==
    IF code = 0 THEN ""
    ELSE IF code = CancelCode THEN "file selection cancelled"
    ELSE "fzf failed"

\* scanner.Scan/Text, cmd.Wait and the return
ScanWait ==
    /\ pc = "scan"
    /\ LET selected == IF fzf.printed THEN fzf.line ELSE <<>>
           err == WaitError(fzf.exit)
       IN  selRet' = [returned |-> TRUE,
                      selected |-> IF err # "" THEN <<>> ELSE TrimSpace(selected),
                      err |-> err]
    /\ pc' = "selected"
    /\ UNCHANGED <<aux, tree, build, parsed, searchDir, targetDir, branchName, statRes,
                   absSearchDir, absTargetDir, onPath, files, walkErr, fzf,
                   now, finalBranchName, sourcePath, destPath, fsLog, cwd,
                   chdirs, cmdLog, gitErr, exitCode, out>>

(***************************************************************************)
(* main: selection, branch name, copy                                      *)
(***************************************************************************)
NothingSelectedMutant(sel) == FALSE

NothingSelected(sel) == sel = <<>>

HandleSelection ==
    /\ pc = "selected"
    /\ IF selRet.err # "" THEN Exit(1, "error selecting file", selRet.err)
       ELSE IF NothingSelected(selRet.selected) THEN Exit(1, "no file selected", "")
       ELSE Goto("branch")
    /\ UNCHANGED <<aux, tree, build, parsed, searchDir, targetDir, branchName, statRes,
                   absSearchDir, absTargetDir, onPath, files, walkErr, fzf,
                   selRet, now, finalBranchName, sourcePath, destPath, fsLog,
                   cwd, chdirs, cmdLog, gitErr>>

DeriveBranch ==
    /\ pc = "branch"
    /\ IF branchName = <<>>
       THEN \E t \in Dates :
               /\ now' = t
               /\ finalBranchName' = generateBranchName(selRet.selected, t)
       ELSE /\ finalBranchName' = branchName
            /\ UNCHANGED now
    /\ Goto("copy")
    /\ UNCHANGED <<aux, tree, build, parsed, searchDir, targetDir, branchName, statRes,
                   absSearchDir, absTargetDir, onPath, files, walkErr, fzf,
                   selRet, sourcePath, destPath, fsLog, cwd, chdirs, cmdLog,
                   gitErr>>

SourcePath(search, selected) == Join(search, selected)

DestPathMutant(b, target, selected) == Join(target, selected)

\* main.go keeps only the base name of the selection, part_000 the whole of it
DestPath(b, target, selected) ==
    IF b = "main.go" THEN Join(target, Base(selected)) ELSE Join(target, selected)

CopyPhases == <<"open", "mkdir", "create", "copy">>

CopyErrors == <<"failed to open source file", "failed to create destination directory",
                "failed to create destination file", "failed to copy file">>

\* the phases copyFile runs when phase number failAt fails (0: none fails)
copyFile(src, dst, failAt) ==
    LET last == IF failAt = 0 THEN Len(CopyPhases) ELSE failAt
        path(i) == IF i = 1 THEN src ELSE IF i = 2 THEN Dir(dst) ELSE dst
    IN  [i \in 1..last |-> [op |-> CopyPhases[i], path |-> path(i), ok |-> i # failAt]]

CopyFailedMutant(failAt) == failAt \in 1..3

CopyFailed(failAt) == failAt # 0

CopyFile ==
    /\ pc = "copy"
    /\ sourcePath' = SourcePath(absSearchDir, selRet.selected)
    /\ destPath' = DestPath(build, absTargetDir, selRet.selected)
    /\ \E failAt \in 0..Len(CopyPhases) :
          /\ fsLog' = copyFile(sourcePath', destPath', failAt)
          /\ IF CopyFailed(failAt)
             THEN Exit(1, "error copying file", CopyErrors[failAt])
             ELSE Goto("chdir")
    /\ UNCHANGED <<aux, tree, build, parsed, searchDir, targetDir, branchName, statRes,
                   absSearchDir, absTargetDir, onPath, files, walkErr, fzf,
                   selRet, now, finalBranchName, cwd, chdirs, cmdLog, gitErr>>

(***************************************************************************)
(* gitOperations                                                           *)
(***************************************************************************)
Steps == <<"CreateBranch", "StageAll", "Commit", "Push", "CreatePR", "OpenBrowser">>

StepErrors == <<"failed to create branch", "failed to stage changes",
                "failed to commit changes", "failed to push changes",
                "failed to create pr", "failed to open browser">>

\* the error gitOperations returns when step k fails; part_000 spells the
\* pull-request step's error with capitals
StepError(b, k) ==
    IF b = "part_000" /\ Steps[k] = "CreatePR" THEN "failed to create PR" ELSE StepErrors[k]

\* argument vectors; <branch>, <happy> and <bird> stand for the values that
\* the command record carries in its fields branch and body
Programs == <<"git", "git", "git", "git", "gh", "gh">>

Arguments ==
    << <<"checkout", "-b", "<branch>">>,
       <<"add", ".">>,
       <<"commit", "-m", "Add <branch>">>,
       <<"push", "--set-upstream", "origin", "<branch>">>,
       <<"pr", "create", "--title", "<branch>", "--body", "New finding! <happy><bird>">>,
       <<"browse">> >>

happyEmojis == <<"blush", "smiley", "smile", "slight_smile", "grin", "sunglasses">>

birdEmojis == <<"penguin", "owl", "eagle", "duck", "swan", "parrot", "peacock",
                "chick", "turkey", "eagle", "swan", "bird", "dove">>

\* the body tokens of part_000's fixed pull-request text
FixedBody == <<"slight_smile", "owl">>

\* getRandomEmojis: the pairs rand.Intn can pick
getRandomEmojis ==
    {<<happyEmojis[i], birdEmojis[j]>> : i \in 1..Len(happyEmojis), j \in 1..Len(birdEmojis)}

\* the bodies step k of build b can carry
Bodies(b, k) ==
    IF Steps[k] # "CreatePR" THEN {<<>>}
    ELSE IF b = "main.go" THEN getRandomEmojis
    ELSE {FixedBody}

UsesBranchMutant(k) == Steps[k] \in {"CreateBranch", "Commit", "Push"}

\* the steps whose argument vector holds branchName
UsesBranch(k) == Steps[k] \in {"CreateBranch", "Commit", "Push", "CreatePR"}

Command(k, b, body) ==
    [step |-> Steps[k], prog |-> Programs[k], args |-> Arguments[k],
     branch |-> IF UsesBranch(k) THEN b ELSE <<>>, body |-> body,
     status |-> "running"]

ChdirMutant ==
    /\ pc = "chdir"
    /\ \/ /\ cwd' = absTargetDir
          /\ chdirs' = chdirs + 1
       \/ UNCHANGED <<cwd, chdirs>>
    /\ Goto("git")
    /\ UNCHANGED <<aux, tree, build, parsed, searchDir, targetDir, branchName, statRes,
                   absSearchDir, absTargetDir, onPath, files, walkErr, fzf,
                   selRet, now, finalBranchName, sourcePath, destPath, fsLog,
                   cmdLog, gitErr>>

\* os.Chdir(targetDir)
Chdir ==
    /\ pc = "chdir"
    /\ \/ /\ cwd' = absTargetDir
          /\ chdirs' = chdirs + 1
          /\ Goto("git")
          /\ UNCHANGED gitErr
       \/ /\ gitErr' = "failed to change to target directory"
          /\ Exit(1, "error in git operations", gitErr')
          /\ UNCHANGED <<cwd, chdirs>>
    /\ UNCHANGED <<aux, tree, build, parsed, searchDir, targetDir, branchName, statRes,
                   absSearchDir, absTargetDir, onPath, files, walkErr, fzf,
                   selRet, now, finalBranchName, sourcePath, destPath, fsLog,
                   cmdLog>>

\* cmd.Run returns only when the command has exited: the next command is
\* started when none is running
IdleMutant(log) == TRUE

Idle(log) == \A i \in 1..Len(log) : log[i].status # "running"

\* the step gitOperations starts after n commands have run
NextStep(n) == n + 1

\* runCommand, first half: exec.Command and the start of cmd.Run
CmdStart ==
    /\ pc = "git"
    /\ Idle(cmdLog)
    /\ Len(cmdLog) < Len(Steps)
    /\ LET k == NextStep(Len(cmdLog))
       IN  \E body \in Bodies(build, k) :
              cmdLog' = Append(cmdLog, Command(k, finalBranchName, body))
    /\ UNCHANGED <<aux, tree, build, pc, parsed, searchDir, targetDir, branchName, statRes,
                   absSearchDir, absTargetDir, onPath, files, walkErr, fzf,
                   selRet, now, finalBranchName, sourcePath, destPath, fsLog,
                   cwd, chdirs, gitErr, exitCode, out>>

\* the err != nil test after step k
StepFailedIgnoreStage(k, ok) == ~ok /\ Steps[k] # "StageAll"

StepFailedIgnoreBrowser(k, ok) == ~ok /\ Steps[k] # "OpenBrowser"

StepFailed(k, ok) == ~ok

\* runCommand, second half: the command exits; gitOperations returns the
\* step's error, or goes on, or returns nil after the last step
CmdExit ==
    /\ pc = "git"
    /\ cmdLog # <<>>
    /\ cmdLog[Len(cmdLog)].status = "running"
    /\ \E ok \in BOOLEAN :
          LET k == Len(cmdLog)
          IN  /\ cmdLog' = [cmdLog EXCEPT ![k].status = IF ok THEN "ok" ELSE "failed"]
              /\ IF StepFailed(k, ok)
                 THEN /\ gitErr' = StepError(build, k)
                      /\ Exit(1, "error in git operations", gitErr')
                 ELSE IF k = Len(Steps)
                 THEN /\ Exit(0, "successfully completed all operations!", "")
                      /\ UNCHANGED gitErr
                 ELSE /\ Goto("git")
                      /\ UNCHANGED gitErr
    /\ UNCHANGED <<aux, tree, build, parsed, searchDir, targetDir, branchName, statRes,
                   absSearchDir, absTargetDir, onPath, files, walkErr, fzf,
                   selRet, now, finalBranchName, sourcePath, destPath, fsLog,
                   cwd, chdirs>>

Next ==
    \/ FlagParse
    \/ ValidateSearch
    \/ StatSearch
    \/ AbsPaths
    \/ LookPath
    \/ Enumerate
    \/ FzfStart
    \/ FinderExit
    \/ ScanWait
    \/ HandleSelection
    \/ DeriveBranch
    \/ CopyFile
    \/ Chdir
    \/ CmdStart
    \/ CmdExit

Spec == Init /\ [][Next]_vars

(***************************************************************************)
(* generateBranchName on its own: every filename of at most MaxLen         *)
(* characters, and the two filenames the documentation names               *)
(***************************************************************************)
MaxLen == 3

DeriverAlphabet == {"a", "Z", "7", " ", ".", "/", "_"}

Filenames == StringsUpTo(DeriverAlphabet, MaxLen) \cup {MyFileV2, NotesIdea}

InitDeriver ==
    /\ CopierIdle
    /\ BridgeIdle
    /\ build \in Builds
    /\ pc = "deriver"
    /\ parsed = TRUE
    /\ searchDir = <<>>
    /\ targetDir = <<".">>
    /\ branchName = <<>>
    /\ statRes = "unseen"
    /\ absSearchDir = <<>>
    /\ absTargetDir = <<>>
    /\ onPath = [seen |-> FALSE, found |-> {}]
    /\ files = <<>>
    /\ tree = NotWalked
    /\ walkErr = FALSE
    /\ fzf = NoFinder
    /\ \E f \in Filenames : selRet = [returned |-> TRUE, selected |-> f, err |-> ""]
    /\ now = NoDate
    /\ finalBranchName = <<>>
    /\ sourcePath = <<>>
    /\ destPath = <<>>
    /\ fsLog = <<>>
    /\ cwd = StartDir
    /\ chdirs = 0
    /\ cmdLog = <<>>
    /\ gitErr = ""
    /\ exitCode = -1
    /\ out = <<>>

Derive ==
    /\ pc = "deriver"
    /\ \E t \in Dates :
          /\ now' = t
          /\ finalBranchName' = generateBranchName(selRet.selected, t)
    /\ pc' = "derived"
    /\ UNCHANGED <<aux, tree, build, parsed, searchDir, targetDir, branchName, statRes,
                   absSearchDir, absTargetDir, onPath, files, walkErr, fzf,
                   selRet, sourcePath, destPath, fsLog, cwd, chdirs, cmdLog,
                   gitErr, exitCode, out>>

NextDeriver == Derive

SpecDeriver == InitDeriver /\ [][NextDeriver]_vars

(***************************************************************************)
(* copyFile on a file system: the source and the destination are the paths *)
(* main builds from a search root, a target root and a selection, so the   *)
(* two can name the same file                                              *)
(***************************************************************************)
MaxBytes == 2

Bytes == {"x", "y"}

Contents == StringsUpTo(Bytes, MaxBytes)

\* what a destination that exists before the call holds
OldContent == <<"o", "l", "d">>

CopyRoots == {Abs(StartDir, d) : d \in (SearchArgs \ {<<>>}) \cup TargetArgs}

CopySelections == {<<"a">>, NotesIdea}

RECURSIVE Ancestors(_)
\* the directories above path, the root included
Ancestors(path) ==
    LET d == Dir(path)
    IN  IF d = path THEN {} ELSE {d} \cup Ancestors(d)

\* os.Create: the file exists and is empty afterwards
Truncate(f, path) == [q \in DOMAIN f \cup {path} |-> IF q = path THEN <<>> ELSE f[q]]

InitCopier ==
    /\ MainIdle
    /\ BridgeIdle
    /\ build \in Builds
    /\ \E search \in CopyRoots, target \in CopyRoots, selected \in CopySelections,
          content \in Contents, srcThere \in BOOLEAN, dstThere \in BOOLEAN,
          targetThere \in BOOLEAN :
          LET src == SourcePath(search, selected)
              dst == DestPath(build, target, selected)
              f   == (IF srcThere THEN src :> content ELSE EmptyMap)
                         @@ (IF dstThere THEN dst :> OldContent ELSE EmptyMap)
              d   == {<<"/">>}
                         \cup (IF srcThere THEN Ancestors(src) ELSE {})
                         \cup (IF dstThere THEN Ancestors(dst) ELSE {})
                         \cup (IF targetThere THEN Ancestors(target) \cup {target} ELSE {})
          IN  /\ cpSrc = src
              /\ cpDst = dst
              /\ fsFiles = f
              /\ fsDirs = d
              /\ fs0 = [files |-> f, dirs |-> d,
                        content |-> IF src \in DOMAIN f THEN f[src] ELSE <<>>]
    /\ cpPc = "open"
    /\ cpOff = 0
    /\ cpErr = ""
    /\ cpLog = <<>>

PhaseErrorMutant(i, ok) == IF ok \/ i = 4 THEN "" ELSE CopyErrors[i]

\* the error copyFile makes of a phase's outcome
PhaseError(i, ok) == IF ok THEN "" ELSE CopyErrors[i]

\* a phase ends: copyFile returns its error, or goes on
CopyStep(i, ok, next) ==
    /\ cpLog' = Append(cpLog, [op |-> CopyPhases[i], ok |-> ok])
    /\ cpErr' = PhaseError(i, ok)
    /\ cpPc' = IF cpErr' # "" THEN "returned" ELSE next

\* os.Open(src)
CopyOpen ==
    /\ cpPc = "open"
    /\ \E ok \in BOOLEAN :
          /\ ok => cpSrc \in DOMAIN fsFiles \cup fsDirs
          /\ CopyStep(1, ok, "mkdir")
    /\ UNCHANGED <<cpSrc, cpDst, cpOff, fsFiles, fsDirs, fs0, mainVars, bridgeVars>>

\* os.MkdirAll(filepath.Dir(dst), 0755): creates the missing directories from
\* the top; when it fails the ones it made before the failure remain
CopyMkdirAll ==
    /\ cpPc = "mkdir"
    /\ \E ok \in BOOLEAN, made \in SUBSET (Ancestors(cpDst) \ fsDirs) :
          /\ \A d \in made : Ancestors(d) \subseteq made \cup fsDirs
          /\ IF ok
                THEN /\ Ancestors(cpDst) \cap DOMAIN fsFiles = {}
                     /\ made = Ancestors(cpDst) \ fsDirs
                ELSE made # Ancestors(cpDst) \ fsDirs \/ made = {}
          /\ fsDirs' = fsDirs \cup made
          /\ CopyStep(2, ok, "create")
    /\ UNCHANGED <<cpSrc, cpDst, cpOff, fsFiles, fs0, mainVars, bridgeVars>>

\* os.Create(dst): creates the file, or truncates the one that exists
CopyCreate ==
    /\ cpPc = "create"
    /\ \E ok \in BOOLEAN :
          /\ ok => cpDst \notin fsDirs
          /\ fsFiles' = IF ok THEN Truncate(fsFiles, cpDst) ELSE fsFiles
          /\ CopyStep(3, ok, "copy")
    /\ UNCHANGED <<cpSrc, cpDst, cpOff, fsDirs, fs0, mainVars, bridgeVars>>

\* io.Copy: one read of the source at its offset, written to the destination
CopyChunk ==
    /\ cpPc = "copy"
    /\ cpSrc \in DOMAIN fsFiles
    /\ cpOff < Len(fsFiles[cpSrc])
    /\ \E n \in 1..(Len(fsFiles[cpSrc]) - cpOff) :
          /\ fsFiles' = [fsFiles EXCEPT ![cpDst] =
                            @ \o SubSeq(fsFiles[cpSrc], cpOff + 1, cpOff + n)]
          /\ cpOff' = cpOff + n
    /\ UNCHANGED <<cpPc, cpSrc, cpDst, cpErr, cpLog, fsDirs, fs0, mainVars, bridgeVars>>

\* io.Copy: the read finds the end of the source, copyFile returns nil
CopyEOF ==
    /\ cpPc = "copy"
    /\ cpSrc \in DOMAIN fsFiles
    /\ cpOff = Len(fsFiles[cpSrc])
    /\ CopyStep(4, TRUE, "returned")
    /\ UNCHANGED <<cpSrc, cpDst, cpOff, fsFiles, fsDirs, fs0, mainVars, bridgeVars>>

\* io.Copy: a read or a write fails (always so when the source is a directory);
\* what was written stays in the destination
CopyStreamFail ==
    /\ cpPc = "copy"
    /\ CopyStep(4, FALSE, "returned")
    /\ UNCHANGED <<cpSrc, cpDst, cpOff, fsFiles, fsDirs, fs0, mainVars, bridgeVars>>

NextCopier ==
    \/ CopyOpen
    \/ CopyMkdirAll
    \/ CopyCreate
    \/ CopyChunk
    \/ CopyEOF
    \/ CopyStreamFail

SpecCopier == InitCopier /\ [][NextCopier]_vars

(***************************************************************************)
(* selectFileWithFzf as three concurrent parts: the main path (start,      *)
(* scan, wait), the writer goroutine, and the finder process, joined by    *)
(* the finder's stdin pipe of bounded capacity and its stdout pipe         *)
(***************************************************************************)
MaxFiles == 3

MaxPipe == 2

\* distinct candidate names: a, aa, aaa, ...
Candidate(i) == [k \in 1..i |-> "a"]

CandidateList(n) == [i \in 1..n |-> Candidate(i)]

InitBridge ==
    /\ CopierIdle
    /\ OutsideIdle
    /\ build \in Builds
    /\ pc = "start"
    /\ \E n \in 1..MaxFiles : files = CandidateList(n)
    /\ fzf = NoFinder
    /\ selRet = NoReturn
    /\ wr = [state |-> "none", next |-> 1, log |-> <<>>]
    /\ \E c \in 1..MaxPipe : inPipe = [buf |-> <<>>, cap |-> c, wopen |-> FALSE]
    /\ outPipe = <<>>
    /\ fin = [read |-> <<>>, eof |-> FALSE]
    /\ scan = NoScan

\* StdinPipe, StdoutPipe, cmd.Start and the go statement
BridgeStart ==
    /\ pc = "start"
    /\ \E r \in StartResults :
          IF r = ""
          THEN /\ fzf' = [fzf EXCEPT !.spawned = @ + 1, !.state = "running"]
               /\ inPipe' = [inPipe EXCEPT !.wopen = TRUE]
               /\ wr' = [wr EXCEPT !.state = "running"]
               /\ pc' = "scan"
               /\ UNCHANGED selRet
          ELSE /\ selRet' = [returned |-> TRUE, selected |-> <<>>, err |-> r]
               /\ pc' = "returned"
               /\ UNCHANGED <<fzf, inPipe, wr>>
    /\ UNCHANGED <<files, outPipe, fin, scan, copierVars, outsideVars>>

ScanReadyMutant(buf, gone) == buf # <<>>

\* scanner.Scan() returns when a line has arrived or the finder's output ended
ScanReady(buf, gone) == buf # <<>> \/ gone

\* if scanner.Scan() { selected = scanner.Text() }
BridgeScan ==
    /\ pc = "scan"
    /\ ScanReady(outPipe, fzf.state = "exited")
    /\ IF outPipe # <<>>
          THEN /\ scan' = [done |-> TRUE, ok |-> TRUE, text |-> Head(outPipe)]
               /\ outPipe' = Tail(outPipe)
          ELSE /\ scan' = [done |-> TRUE, ok |-> FALSE, text |-> <<>>]
               /\ UNCHANGED outPipe
    /\ pc' = "wait"
    /\ UNCHANGED <<files, fzf, selRet, wr, inPipe, fin, copierVars, outsideVars>>

\* cmd.Wait() returns once the finder has exited and closes the parent's ends
\* of the pipes; then the return
BridgeWait ==
    /\ pc = "wait"
    /\ fzf.state = "exited"
    /\ inPipe' = [inPipe EXCEPT !.wopen = FALSE]
    /\ LET err == WaitError(fzf.exit)
       IN  selRet' = [returned |-> TRUE,
                      selected |-> IF err # "" THEN <<>> ELSE TrimSpace(scan.text),
                      err |-> err]
    /\ pc' = "returned"
    /\ UNCHANGED <<files, fzf, wr, outPipe, fin, scan, copierVars, outsideVars>>

\* how fmt.Fprintln(stdin, file) ends: written, EPIPE once the finder is gone,
\* os.ErrClosed once the parent's end is closed; "blocked" while the pipe is
\* full and the finder runs
WriteResult(p, gone) ==
    IF ~p.wopen THEN "closed"
    ELSE IF gone THEN "EPIPE"
    ELSE IF Len(p.buf) < p.cap THEN "ok"
    ELSE "blocked"

WriterFinishedMutant(next, n) == next >= n

\* the range loop is past the last file
WriterFinished(next, n) == next > n

\* one turn of the writer's loop; the error of Fprintln is dropped
WriterWrite ==
    /\ wr.state = "running"
    /\ ~WriterFinished(wr.next, Len(files))
    /\ LET res == WriteResult(inPipe, fzf.state = "exited")
       IN  /\ res # "blocked"
           /\ wr' = [wr EXCEPT !.next = @ + 1,
                               !.log = Append(@, [line |-> files[wr.next], res |-> res])]
           /\ inPipe' = IF res = "ok"
                           THEN [inPipe EXCEPT !.buf = Append(@, files[wr.next])]
                           ELSE inPipe
    /\ UNCHANGED <<pc, files, fzf, selRet, outPipe, fin, scan, copierVars, outsideVars>>

\* defer stdin.Close()
WriterClose ==
    /\ wr.state = "running"
    /\ WriterFinished(wr.next, Len(files))
    /\ wr' = [wr EXCEPT !.state = "done"]
    /\ inPipe' = [inPipe EXCEPT !.wopen = FALSE]
    /\ UNCHANGED <<pc, files, fzf, selRet, outPipe, fin, scan, copierVars, outsideVars>>

\* the finder takes a line of its input
FinderRead ==
    /\ fzf.state = "running"
    /\ inPipe.buf # <<>>
    /\ fin' = [fin EXCEPT !.read = Append(@, Head(inPipe.buf))]
    /\ inPipe' = [inPipe EXCEPT !.buf = Tail(@)]
    /\ UNCHANGED <<pc, files, fzf, selRet, wr, outPipe, scan, copierVars, outsideVars>>

\* the finder finds the end of its input: nothing left and the write end closed
FinderEOF ==
    /\ fzf.state = "running"
    /\ ~fin.eof
    /\ inPipe.buf = <<>>
    /\ ~inPipe.wopen
    /\ fin' = [fin EXCEPT !.eof = TRUE]
    /\ UNCHANGED <<pc, files, fzf, selRet, wr, inPipe, outPipe, scan, copierVars, outsideVars>>

\* the finder prints one of the lines it has read, unchanged
FinderPrint ==
    /\ fzf.state = "running"
    /\ ~fzf.printed
    /\ \E i \in 1..Len(fin.read) :
          /\ fzf' = [fzf EXCEPT !.printed = TRUE, !.line = fin.read[i]]
          /\ outPipe' = Append(outPipe, fin.read[i])
    /\ UNCHANGED <<pc, files, selRet, wr, inPipe, fin, scan, copierVars, outsideVars>>

\* the finder exits, whatever it has read or printed
FinderQuit ==
    /\ fzf.state = "running"
    /\ \E code \in ExitCodes : fzf' = [fzf EXCEPT !.state = "exited", !.exit = code]
    /\ UNCHANGED <<pc, files, selRet, wr, inPipe, outPipe, fin, scan, copierVars, outsideVars>>

NextBridge ==
    \/ BridgeStart
    \/ BridgeScan
    \/ BridgeWait
    \/ WriterWrite
    \/ WriterClose
    \/ FinderRead
    \/ FinderEOF
    \/ FinderPrint
    \/ FinderQuit

\* the main path and the writer goroutine run whenever they can; nothing is
\* assumed of the finder
SpecBridge ==
    /\ InitBridge
    /\ [][NextBridge]_vars
    /\ WF_vars(BridgeStart)
    /\ WF_vars(BridgeScan)
    /\ WF_vars(BridgeWait)
    /\ WF_vars(WriterWrite)
    /\ WF_vars(WriterClose)

\* the same with a finder that reads its input as long as it runs
SpecBridgeReading == SpecBridge /\ WF_vars(FinderRead)

(***************************************************************************)
(* Properties                                                              *)
(***************************************************************************)
Exited == pc = "exited"

\* main ran to its last line
Done == Exited /\ out[Len(out)].text = "successfully completed all operations!"

Statuses(log) == [i \in 1..Len(log) |-> log[i].status]

AllOk(log) == \A i \in 1..Len(log) : log[i].status = "ok"

NoGit == chdirs = 0 /\ cwd = StartDir /\ cmdLog = <<>> /\ gitErr = ""

\* C1: gitOperations halts at the first failing step.  Whenever the k-th
\* command has failed, it is step k of the fixed sequence, the k-1 commands
\* before it are the steps before it and all succeeded, it is the last command
\* ever started (nothing later, no retry, no compensating command),
\* gitOperations has returned the error of step k, and the errors of the six
\* steps are pairwise different.
HaltsAtFirstFailure ==
    /\ \A k \in 1..Len(cmdLog) :
          cmdLog[k].status = "failed" =>
             /\ k = Len(cmdLog)
             /\ \A j \in 1..(k - 1) : cmdLog[j].status = "ok" /\ cmdLog[j].step = Steps[j]
             /\ cmdLog[k].step = Steps[k]
             /\ gitErr = StepError(build, k)
             /\ \A j \in 1..Len(Steps) : StepError(build, j) = gitErr => j = k
             /\ Exited
    /\ gitErr \in {StepError(build, k) : k \in 1..Len(Steps)} =>
          /\ cmdLog # <<>>
          /\ cmdLog[Len(cmdLog)].status = "failed"

\* C1 witness: the third command (commit) failed after two that succeeded
ThirdStepFailed ==
    /\ Len(cmdLog) = 3
    /\ Statuses(cmdLog) = <<"ok", "ok", "failed">>
    /\ Exited

\* C2: the commands are started in the order CreateBranch, StageAll, Commit,
\* Push, CreatePR, OpenBrowser, each at most once; a command is started only
\* after the one before it exited successfully, so at most one is running; a
\* run that completes has run each of the six exactly once.
OrderedOneAtATime ==
    /\ Len(cmdLog) <= Len(Steps)
    /\ \A i \in 1..Len(cmdLog) : cmdLog[i].step = Steps[i]
    /\ \A i \in 1..(Len(cmdLog) - 1) : cmdLog[i].status = "ok"
    /\ Cardinality({i \in 1..Len(cmdLog) : cmdLog[i].status = "running"}) <= 1
    /\ Done =>
          /\ Len(cmdLog) = Len(Steps)
          /\ AllOk(cmdLog)

\* C2 witness: a completed run, all six commands done
AllSixRan ==
    /\ Done
    /\ Len(cmdLog) = Len(Steps)
    /\ AllOk(cmdLog)

\* r is s without its leading and trailing white space
IsTrimOf(r, s) ==
    /\ \E i \in 0..Len(s) : \E j \in i..Len(s) :
          /\ r = SubSeq(s, i + 1, j)
          /\ \A k \in 1..i : s[k] \in {" ", "\t"}
          /\ \A k \in (j + 1)..Len(s) : s[k] \in {" ", "\t"}
    /\ r # <<>> => r[1] \notin {" ", "\t"} /\ r[Len(r)] \notin {" ", "\t"}

\* C3: what selectFileWithFzf returns is decided by how the finder ended.
\* Exit 130: the cancellation error and no selection, also when a line was
\* read.  Exit 0 with a line: that line trimmed, no error.  Exit 0 without
\* output: the empty string, no error.  Any other exit status, death by a
\* signal, or a finder that could not be started: an error that is not the
\* cancellation error, and no selection.
SelectorOutcomes ==
    selRet.returned =>
       /\ fzf.state = "exited" /\ fzf.exit = 130 =>
             selRet.err = "file selection cancelled" /\ selRet.selected = <<>>
       /\ fzf.state = "exited" /\ fzf.exit = 0 /\ fzf.printed =>
             selRet.err = "" /\ IsTrimOf(selRet.selected, fzf.line)
       /\ fzf.state = "exited" /\ fzf.exit = 0 /\ ~fzf.printed =>
             selRet.err = "" /\ selRet.selected = <<>>
       /\ fzf.state = "exited" /\ fzf.exit \notin {0, 130} =>
             /\ selRet.err \notin {"", "file selection cancelled"}
             /\ selRet.selected = <<>>
       /\ fzf.state # "exited" =>
             /\ fzf.spawned = 0
             /\ selRet.err \notin {"", "file selection cancelled"}
             /\ selRet.selected = <<>>

\* C3 witness: the finder printed a line and then ended with status 130
CancelledAfterLine ==
    /\ selRet.returned
    /\ fzf.state = "exited"
    /\ fzf.exit = 130
    /\ fzf.printed
    /\ fzf.line # <<>>

\* the part of p after its last separator
LastComponent(p) ==
    CHOOSE c \in {SubSeq(p, i, Len(p)) : i \in 1..(Len(p) + 1)} :
        /\ \A k \in 1..Len(c) : c[k] # "/"
        /\ Len(c) = Len(p) \/ p[Len(p) - Len(c)] = "/"

\* c up to, and without, its last dot
Stem(c) ==
    LET dots == {i \in 1..Len(c) : c[i] = "."}
    IN  IF dots = {} THEN c
        ELSE SubSeq(c, 1, (CHOOSE i \in dots : \A j \in dots : j <= i) - 1)

CopyRan == fsLog # <<>>

CopySucceeded == Len(fsLog) = Len(CopyPhases) /\ \A i \in 1..Len(fsLog) : fsLog[i].ok

CopyFailedAt(i) == Len(fsLog) = i /\ ~fsLog[i].ok

\* the selection is one of the candidates, as a path below the search root
SelectedCandidate ==
    /\ selRet.returned
    /\ selRet.err = ""
    /\ selRet.selected # <<".">>
    /\ \E i \in 1..Len(files) : files[i] = selRet.selected

\* C4 as claimed: the copy goes from <search root>/p to <target root>/p for
\* every selected candidate p.
DestPreservesRelativePath ==
    CopyRan /\ SelectedCandidate =>
       /\ sourcePath = absSearchDir \o <<"/">> \o selRet.selected
       /\ destPath = absTargetDir \o <<"/">> \o selRet.selected

\* C4 as amended: the copy goes from <search root>/p; its destination is
\* <target root>/p in the entry point of part_000, and <target root>/<last
\* component of p> in the entry point of main.go, which drops the directories
\* of p.
DestPathPerBuild ==
    CopyRan /\ SelectedCandidate =>
       /\ sourcePath = absSearchDir \o <<"/">> \o selRet.selected
       /\ build = "part_000" => destPath = absTargetDir \o <<"/">> \o selRet.selected
       /\ build = "main.go" =>
             destPath = absTargetDir \o <<"/">> \o LastComponent(selRet.selected)

\* C4 witness: main.go copied the selection notes/idea.md to <target>/idea.md
FlattenedCopy ==
    /\ build = "main.go"
    /\ CopySucceeded
    /\ selRet.selected = NotesIdea
    /\ destPath = absTargetDir \o <<"/", "i", "d", "e", "a", ".", "m", "d">>

OnlyAlnumDash(s) == \A i \in 1..Len(s) : s[i] \in Lower \cup Upper \cup DigitSet \cup {"-"}

BranchSet == finalBranchName # <<>>

\* C5 as claimed: the branch name handed to gitOperations holds only
\* letters, digits and dashes, whether derived or given with --branch, and
\* every command that names the branch names that value.
BranchNameAlnumDash ==
    /\ BranchSet => OnlyAlnumDash(finalBranchName)
    /\ \A i \in 1..Len(cmdLog) :
          cmdLog[i].branch = IF UsesBranch(i) THEN finalBranchName ELSE <<>>

\* C5 as amended: a derived branch name holds only letters, digits and
\* dashes; a name given with --branch is taken as it is, whatever its
\* characters; every command that names the branch names that value.
DerivedBranchAlnumDash ==
    /\ BranchSet /\ branchName = <<>> => OnlyAlnumDash(finalBranchName)
    /\ BranchSet /\ branchName # <<>> => finalBranchName = branchName
    /\ \A i \in 1..Len(cmdLog) :
          cmdLog[i].branch = IF UsesBranch(i) THEN finalBranchName ELSE <<>>

\* C5 witness: a branch name derived from a file name with dots and used by
\* the push
DerivedBranchPushed ==
    /\ branchName = <<>>
    /\ selRet.selected = <<"x", ".", "y", ".", "z">>
    /\ Len(cmdLog) >= 4
    /\ cmdLog[4].branch = finalBranchName

\* a string that can name a file: not empty, not ending in a separator
IsFileName(f) == f # <<>> /\ f[Len(f)] # "/"

DigitValue(c) == CHOOSE n \in 0..9 : Digits[n + 1] = c

TwoDigitValue(s, i) == 10 * DigitValue(s[i]) + DigitValue(s[i + 1])

MyFileBranch ==
    <<"M","y","-","F","i","l","e","-","v","2","-","2","4","-","0","3","-","0","5">>

\* C6: for every filename, generateBranchName gives the last path component
\* without its extension, each character outside [A-Za-z0-9] replaced by one
\* dash, followed by a dash and the date as YY-MM-DD; "My File v2.txt" on
\* 2024-03-05 gives "My-File-v2-24-03-05", notes/idea.md gives idea-<date>.
DerivedNameAsDocumented ==
    pc = "derived" /\ IsFileName(selRet.selected) =>
       LET f == selRet.selected
           stem == Stem(LastComponent(f))
           n == Len(stem)
           r == finalBranchName
       IN  /\ Len(r) = n + 9
           /\ \A i \in 1..n :
                 r[i] = IF stem[i] \in Lower \cup Upper \cup DigitSet THEN stem[i] ELSE "-"
           /\ r[n + 1] = "-" /\ r[n + 4] = "-" /\ r[n + 7] = "-"
           /\ TwoDigitValue(r, n + 2) = now.year % 100
           /\ TwoDigitValue(r, n + 5) = now.month
           /\ TwoDigitValue(r, n + 8) = now.day
           /\ (f = MyFileV2 /\ now = [year |-> 2024, month |-> 3, day |-> 5]) =>
                 r = MyFileBranch
           /\ f = NotesIdea => SubSeq(r, 1, 5) = <<"i", "d", "e", "a", "-">>

\* C6 witness: the documented example has been derived
MyFileDerived ==
    /\ pc = "derived"
    /\ selRet.selected = MyFileV2
    /\ now = [year |-> 2024, month |-> 3, day |-> 5]
    /\ finalBranchName = MyFileBranch

\* nothing has happened yet beyond validation: no candidate list handed on,
\* no finder, nothing written below the target root, working directory and
\* git untouched
NoSideEffect ==
    /\ pc \notin {"fzf", "finder", "scan", "selected", "branch", "copy", "chdir", "git"}
    /\ fzf.spawned = 0
    /\ ~selRet.returned
    /\ fsLog = <<>>
    /\ NoGit

\* --search was not given (or given empty) on a command line that parsed
SearchAbsent == parsed /\ pc # "required" /\ searchDir = <<>>

ToolMissing == onPath.seen /\ onPath.found # Tools

IoFailureBeforeGit ==
    /\ (walkErr \/ \E i \in 1..Len(CopyPhases) : CopyFailedAt(i)) =>
          /\ Exited
          /\ exitCode = 1
          /\ NoGit
    /\ walkErr => fzf.spawned = 0 /\ fsLog = <<>>
    /\ (chdirs > 0 \/ cwd # StartDir \/ cmdLog # <<>> \/ gitErr # "") => CopySucceeded

\* C8 witness: the stream copy, the last phase, failed and the run has ended
StreamCopyFailed ==
    /\ CopyFailedAt(Len(CopyPhases))
    /\ Exited

AllSpace(s) == \A i \in 1..Len(s) : s[i] \in {" ", "\t"}

FinderCancelled == fzf.state = "exited" /\ fzf.exit = 130

FinderChoseNothing ==
    /\ fzf.state = "exited"
    /\ fzf.exit = 0
    /\ ~fzf.printed \/ AllSpace(fzf.line)

LastMessage == out[Len(out)]

\* C9: once main has looked at the selector's result, a cancelled finder
\* (exit 130) and a finder that chose nothing (exit 0 with no output, or with
\* a line of white space only) have ended the run with exit code 1 and their
\* own message: the cancellation names the cancellation, not the generic
\* finder failure.  No branch name was derived, nothing copied, no git step.
NothingSelectedStops ==
    (pc \notin {"scan", "selected"} /\ (FinderCancelled \/ FinderChoseNothing)) =>
       /\ Exited
       /\ exitCode = 1
       /\ FinderCancelled =>
             LastMessage = [text |-> "error selecting file",
                            cause |-> "file selection cancelled"]
       /\ FinderChoseNothing => LastMessage = [text |-> "no file selected", cause |-> ""]
       /\ finalBranchName = <<>> /\ now = NoDate
       /\ sourcePath = <<>> /\ destPath = <<>> /\ fsLog = <<>>
       /\ NoGit

\* C9 witness: the finder printed a blank line, exited 0, and the run ended
BlankLineStops ==
    /\ fzf.state = "exited"
    /\ fzf.exit = 0
    /\ fzf.printed
    /\ fzf.line = <<" ">>
    /\ Exited

\* every stage of the run succeeded
AllSucceeded ==
    /\ parsed /\ searchDir # <<>> /\ statRes \in {"dir", "file"}
    /\ absSearchDir # <<>> /\ absTargetDir # <<>>
    /\ onPath.seen /\ onPath.found = Tools
    /\ ~walkErr /\ files # <<>>
    /\ selRet.returned /\ selRet.err = "" /\ selRet.selected # <<>>
    /\ CopySucceeded
    /\ chdirs = 1
    /\ Len(cmdLog) = Len(Steps) /\ AllOk(cmdLog)

\* C10 as claimed: the exit code is 0 exactly when validation, enumeration,
\* selection, copy and the six workflow steps all succeeded; every other run
\* exits with code 1 after printing a message.
ExitZeroIffAllSucceeded ==
    Exited =>
       /\ exitCode = 0 <=> AllSucceeded
       /\ exitCode # 0 => exitCode = 1 /\ out # <<>>

\* C10 as amended: of the runs whose command line flag.Parse accepts, the
\* exit code is 0 exactly when validation, enumeration, selection, copy and
\* the six workflow steps all succeeded, and every other one exits with code
\* 1 after printing a message; a run that ends in flag.Parse prints the usage
\* and exits with code 0 (-h, -help) or 2 (a command line it rejects).
ExitCodeOfParsedRuns ==
    Exited =>
       /\ out # <<>>
       /\ parsed =>
             /\ exitCode = 0 <=> AllSucceeded
             /\ exitCode # 0 => exitCode = 1
       /\ ~parsed =>
             /\ exitCode \in {0, 2}
             /\ NoSideEffect

\* C10 witness: the browser step failed after the pull request was created
BrowserFailedExitOne ==
    /\ Len(cmdLog) = Len(Steps)
    /\ cmdLog[5].status = "ok"
    /\ cmdLog[6].status = "failed"
    /\ Exited
    /\ exitCode = 1

\* ---- copyFile (SpecCopier) ----
CopyReturned == cpPc = "returned"

CopyOk == CopyReturned /\ cpErr = ""

\* C11: whenever copyFile returns success, the destination holds the content
\* the source had before the call, and every directory above the destination
\* exists; also when source and destination are the same file
CopyRoundTrip ==
    CopyOk =>
       /\ cpDst \in DOMAIN fsFiles
       /\ fsFiles[cpDst] = fs0.content
       /\ Ancestors(cpDst) \subseteq fsDirs

PhaseFailed(i) == Len(cpLog) = i /\ ~cpLog[i].ok

\* C12: copyFile runs open, mkdir, create, copy in that order, each at most
\* once and only after the ones before it succeeded; it returns nil only when
\* all four succeeded, otherwise the error of the phase that failed; a phase
\* that did not run leaves the file system as it was; a failed stream copy is
\* an error whatever it left in the destination
CopyPhasesInOrder ==
    /\ Len(cpLog) <= 4
    /\ \A i \in 1..Len(cpLog) :
          /\ cpLog[i].op = <<"open", "mkdir", "create", "copy">>[i]
          /\ i < Len(cpLog) => cpLog[i].ok
    /\ CopyOk <=> Len(cpLog) = 4 /\ cpLog[4].ok
    /\ CopyReturned <=> cpLog # <<>> /\ (Len(cpLog) = 4 \/ ~cpLog[Len(cpLog)].ok)
    /\ PhaseFailed(1) => cpErr = "failed to open source file"
    /\ PhaseFailed(2) => cpErr = "failed to create destination directory"
    /\ PhaseFailed(3) => cpErr = "failed to create destination file"
    /\ PhaseFailed(4) => cpErr = "failed to copy file"
    /\ Len(cpLog) < 2 => fsDirs = fs0.dirs
    /\ Len(cpLog) < 3 \/ PhaseFailed(3) => fsFiles = fs0.files /\ cpOff = 0

\* the stream copy failed after it wrote a part of the source
PartialCopyReported ==
    /\ PhaseFailed(4)
    /\ cpErr = "failed to copy file"
    /\ Len(fsFiles[cpDst]) > 0
    /\ Len(fsFiles[cpDst]) < Len(fs0.content)

\* ---- findFiles ----
Paths(list) == {list[i] : i \in DOMAIN list}

NoDuplicates(list) == \A i, j \in DOMAIN list : list[i] = list[j] => i = j

\* the paths of the walked entries of one of the kinds
EntryPaths(kinds) ==
    {tree.entries[i].path : i \in {j \in DOMAIN tree.entries : tree.entries[j].kind \in kinds}}

EnumeratedOk == tree.walked /\ ~walkErr

\* a failed walk ends the run before the finder, the copy and the workflow
WalkFailureStops ==
    tree.walked /\ walkErr =>
       /\ Exited
       /\ exitCode = 1
       /\ fzf = NoFinder
       /\ ~selRet.returned
       /\ fsLog = <<>>
       /\ NoGit

\* C13 as stated: findFiles returns exactly the regular files of the tree,
\* relative to the root, without duplicates and without directories, and a
\* failed walk leaves no list that main uses
FilesAreRegularFiles ==
    /\ EnumeratedOk =>
          /\ Paths(files) = EntryPaths({"file"})
          /\ NoDuplicates(files)
          /\ \A i \in DOMAIN files : ~IsAbsPath(files[i])
    /\ WalkFailureStops

\* C13 amended: findFiles returns exactly the entries of the tree that are
\* not directories (regular files, and symbolic links and other entries that
\* are not regular files), relative to the root, without duplicates and
\* without directories, and a failed walk leaves no list that main uses
FilesAreNonDirectories ==
    /\ EnumeratedOk =>
          /\ Paths(files) = EntryPaths({"file", "symlink"})
          /\ Paths(files) \cap EntryPaths({"dir"}) = {}
          /\ NoDuplicates(files)
          /\ \A i \in DOMAIN files : ~IsAbsPath(files[i])
    /\ WalkFailureStops

\* a symbolic link is among the candidates offered to the finder
SymlinkListed ==
    /\ EnumeratedOk
    /\ pc = "fzf"
    /\ EntryPaths({"symlink"}) # {}
    /\ EntryPaths({"symlink"}) \subseteq Paths(files)

\* ---- selectFileWithFzf (SpecBridge) ----
BridgeReturned == pc = "returned"

FinderGone == fzf.state = "exited"

\* C14: once the finder has exited, selectFileWithFzf returns, whatever the
\* writer goroutine is doing, for every list length and pipe capacity and
\* also when the finder left input unread
ReturnsOnceFinderExited == FinderGone ~> BridgeReturned

\* the bridge returned the finder's line while the writer had candidates left
\* that the finder never read
ReturnedBeforeWriterDone ==
    /\ BridgeReturned
    /\ selRet.err = ""
    /\ selRet.selected # <<>>
    /\ wr.state = "running"
    /\ wr.next <= Len(files)
    /\ Len(fin.read) < Len(files)

\* the lines of the writes that succeeded, in the order of the writes
RECURSIVE Written(_)
Written(log) ==
    IF log = <<>> THEN <<>>
    ELSE LET before == Written(SubSeq(log, 1, Len(log) - 1))
             last == log[Len(log)]
         IN  IF last.res = "ok" THEN Append(before, last.line) ELSE before

\* the writer's attempts are the candidates in list order, one line each and
\* each once; its Close comes after the attempt on the last one; the finder
\* receives the written lines in order and finds the end of its input only
\* after the writer's Close, when it has read every candidate
WriterInOrder ==
    /\ Len(wr.log) = wr.next - 1
    /\ Len(wr.log) <= Len(files)
    /\ \A i \in 1..Len(wr.log) : wr.log[i].line = files[i]
    /\ wr.state = "done" => Len(wr.log) = Len(files)
    /\ fin.read \o inPipe.buf = Written(wr.log)
    /\ fin.eof => wr.state = "done" /\ fin.read = files

WriterClosed == wr.state = "done"

ChdirFailed == gitErr = "failed to change to target directory"

\* the working directory is the start directory until the one successful
\* os.Chdir and the target directory ever after; every command runs after it;
\* a failed os.Chdir ends the run with no command
CwdStates ==
    /\ chdirs \in {0, 1}
    /\ chdirs = 0 => cwd = StartDir /\ cmdLog = <<>>
    /\ chdirs = 1 => cwd = absTargetDir
    /\ cmdLog # <<>> => chdirs = 1
    /\ Done => chdirs = 1
    /\ ChdirFailed => Exited /\ exitCode = 1 /\ chdirs = 0 /\ cmdLog = <<>>

\* C15: the working directory is changed at most once in a run and exactly
\* once in a run that starts a git command, to the target directory and
\* before the first command; only gitOperations' os.Chdir changes it, nothing
\* restores it, and when os.Chdir fails no command is started
ChdirOnceBeforeGit ==
    /\ []CwdStates
    /\ [][cwd' # cwd \/ chdirs' # chdirs =>
             /\ pc = "chdir"
             /\ cmdLog = <<>>
             /\ chdirs = 0
             /\ cwd' = absTargetDir]_vars

\* the whole workflow ran in a target directory other than the start directory
WorkflowRanInTarget ==
    /\ Done
    /\ Len(cmdLog) = 6
    /\ chdirs = 1
    /\ cwd = absTargetDir
    /\ cwd # StartDir

\* ---- the selection ----
\* the finder printed one of the candidates and exited with status 0
FinderChose ==
    /\ selRet.returned
    /\ selRet.err = ""
    /\ fzf.printed
    /\ fzf.line \in Paths(files)

\* C16: when the finder prints one of the candidates and selectFileWithFzf
\* succeeds, what it returns is that candidate, so that main copies the file
\* the user chose; also for names that begin or end with white space
SelectionIsCandidate ==
    /\ FinderChose => selRet.selected = fzf.line /\ selRet.selected \in Paths(files)
    /\ FinderChose /\ CopyRan => sourcePath = absSearchDir \o <<"/">> \o fzf.line

\* ---- command lines ----
\* the command lines of the external interface, program first; <branch>,
\* <happy> and <bird> are filled from the command's branch and body
CommandLines ==
    << <<"git", "checkout", "-b", "<branch>">>,
       <<"git", "add", ".">>,
       <<"git", "commit", "-m", "Add <branch>">>,
       <<"git", "push", "--set-upstream", "origin", "<branch>">>,
       <<"gh", "pr", "create", "--title", "<branch>", "--body", "New finding! <happy><bird>">>,
       <<"gh", "browse">> >>

HappySet == {"blush", "smiley", "smile", "slight_smile", "grin", "sunglasses"}

BirdSet == {"penguin", "owl", "eagle", "duck", "swan", "parrot", "peacock", "chick",
            "turkey", "bird", "dove"}

\* C18: the i-th command of a run is the i-th command line of the external
\* interface; checkout, commit, push and the pull request's title all carry
\* the one branch name of the run; the pull request's body carries a token of
\* the happy set followed by a token of the bird set, no other command has one
CommandLinesAsDocumented ==
    \A i \in 1..Len(cmdLog) :
       LET c == cmdLog[i]
       IN  /\ i <= 6
           /\ <<c.prog>> \o c.args = CommandLines[i]
           /\ c.branch = IF i \in {1, 3, 4, 5} THEN finalBranchName ELSE <<>>
           /\ IF i = 5
                 THEN /\ Len(c.body) = 2
                      /\ c.body[1] \in HappySet
                      /\ c.body[2] \in BirdSet
                 ELSE c.body = <<>>

\* a completed run whose pull request carried the branch name and a pair of
\* tokens other than part_000's fixed pair
PrCreatedWithBranchTitle ==
    /\ Done
    /\ finalBranchName # <<>>
    /\ cmdLog[1].branch = finalBranchName
    /\ cmdLog[5].branch = finalBranchName
    /\ cmdLog[5].body = <<"sunglasses", "dove">>

\* ---- empty enumeration ----
NothingFound == EnumeratedOk /\ files = <<>>

\* C19: when findFiles succeeds with no candidate, main exits with code 1 and
\* has started no finder, copied nothing and run no command; the finder is
\* only ever started, and selectFileWithFzf only ever called, with candidates
ExitsWhenNothingFound ==
    /\ NothingFound =>
          /\ Exited
          /\ exitCode = 1
          /\ out[Len(out)].text = "no files found in search directory"
          /\ fzf = NoFinder
          /\ ~selRet.returned
          /\ fsLog = <<>>
          /\ NoGit
    /\ fzf.spawned > 0 \/ selRet.returned \/ pc = "fzf" => files # <<>>

\* the walk of a tree without any file succeeded and the run ended with code 1
EmptyTreeExit ==
    /\ NothingFound
    /\ \A i \in DOMAIN tree.entries : tree.entries[i].kind = "dir"
    /\ Exited
    /\ exitCode = 1

====
